---- MODULE Spec2Model ----
(***************************************************************************)
(* Model of the sentiment evaluator (GreenAgent): the ground-truth store,  *)
(* the accuracy scorer, the fallback scorer and the assessment runner.     *)
(*                                                                         *)
(* Numbers: accuracy scores are kept in tenths (1.0 -> 10, 0.5 -> 5, ...)  *)
(* and confidences in hundredths (0.85 -> 85), so every float literal of   *)
(* the source is an exact integer here.  Python's None is the string None. *)
(***************************************************************************)
EXTENDS Integers, Sequences, FiniteSets, TLC

None == "None"

\* None where an AssessmentResult is expected (`result = None`).
NoneResult == [none |-> TRUE]

(***************************************************************************)
(* ground_truth.py : GROUND_TRUTH (verified_sentiment and confidence of    *)
(* each of the 26 entries; the descriptive fields are not read by the      *)
(* scorer or the runner).                                                  *)
(***************************************************************************)
GROUND_TRUTH ==
    ("iPhone 16" :> [verified_sentiment |-> "positive", confidence |-> 85]) @@
    ("Twitter rebrand to X" :> [verified_sentiment |-> "negative", confidence |-> 83]) @@
    ("ChatGPT" :> [verified_sentiment |-> "mixed", confidence |-> 84]) @@
    ("climate change" :> [verified_sentiment |-> "negative", confidence |-> 90]) @@
    ("Taylor Swift Eras Tour" :> [verified_sentiment |-> "positive", confidence |-> 95]) @@
    ("remote work" :> [verified_sentiment |-> "mixed", confidence |-> 85]) @@
    ("AI replacing jobs" :> [verified_sentiment |-> "negative", confidence |-> 85]) @@
    ("electric vehicles" :> [verified_sentiment |-> "mixed", confidence |-> 80]) @@
    ("return to office mandates" :> [verified_sentiment |-> "negative", confidence |-> 90]) @@
    ("M4 MacBook Pro" :> [verified_sentiment |-> "positive", confidence |-> 88]) @@
    ("Steam Deck" :> [verified_sentiment |-> "positive", confidence |-> 83]) @@
    ("Windows 11 forced updates" :> [verified_sentiment |-> "negative", confidence |-> 81]) @@
    ("Windows 11" :> [verified_sentiment |-> "mixed", confidence |-> 78]) @@
    ("Threads social media app" :> [verified_sentiment |-> "mixed", confidence |-> 76]) @@
    ("GitHub Copilot" :> [verified_sentiment |-> "positive", confidence |-> 84]) @@
    ("AI generated art" :> [verified_sentiment |-> "mixed", confidence |-> 79]) @@
    ("Barbie movie 2023" :> [verified_sentiment |-> "positive", confidence |-> 87]) @@
    ("Baldurs Gate 3" :> [verified_sentiment |-> "positive", confidence |-> 91]) @@
    ("4-day work week" :> [verified_sentiment |-> "positive", confidence |-> 86]) @@
    ("inflation 2024" :> [verified_sentiment |-> "mixed", confidence |-> 82]) @@
    ("cryptocurrency regulation" :> [verified_sentiment |-> "mixed", confidence |-> 80]) @@
    ("Ozempic for weight loss" :> [verified_sentiment |-> "mixed", confidence |-> 81]) @@
    ("mental health awareness" :> [verified_sentiment |-> "positive", confidence |-> 85]) @@
    ("pineapple on pizza" :> [verified_sentiment |-> "mixed", confidence |-> 83]) @@
    ("daylight saving time" :> [verified_sentiment |-> "mixed", confidence |-> 82]) @@
    ("self-checkout machines" :> [verified_sentiment |-> "mixed", confidence |-> 80])

\* Variant: setdefault instead of get, the sentinel is stored under the topic.
store_after_setdefault(store, topic) ==
    IF topic \in DOMAIN store
    THEN store
    ELSE store @@ (topic :> [verified_sentiment |-> "unknown", confidence |-> 0])

\* The module-level dict as a lookup leaves it: dict.get inserts nothing.
store_after_get(store, topic) == store

\* Variant: a topic without an entry is given a neutral verdict.
get_ground_truth_neutral_default(topic) ==
    IF topic \in DOMAIN GROUND_TRUTH
    THEN GROUND_TRUTH[topic]
    ELSE [verified_sentiment |-> "neutral", confidence |-> 0]

\* get_ground_truth: dict.get with the sentinel entry as the default.
get_ground_truth(topic) ==
    IF topic \in DOMAIN GROUND_TRUTH
    THEN GROUND_TRUTH[topic]
    ELSE [verified_sentiment |-> "unknown", confidence |-> 0]

\* calculate_accuracy: the two literal tables, as dicts keyed on a pair.
close_matches ==
    (<<"mixed", "neutral">> :> 6) @@
    (<<"neutral", "mixed">> :> 6)

\* Variant: the table without the rows for a predicted "mixed".
partial_matches_polarity_only ==
    (<<"positive", "mixed">> :> 4) @@
    (<<"negative", "mixed">> :> 4)

\* Variant: half credit for a polar answer to a mixed topic.
partial_matches_half_credit ==
    (<<"positive", "mixed">> :> 5) @@
    (<<"negative", "mixed">> :> 5) @@
    (<<"mixed", "positive">> :> 3) @@
    (<<"mixed", "negative">> :> 3)

partial_matches ==
    (<<"positive", "mixed">> :> 4) @@
    (<<"negative", "mixed">> :> 4) @@
    (<<"mixed", "positive">> :> 3) @@
    (<<"mixed", "negative">> :> 3)

\* Variant: the tables looked up with the key (actual, predicted).
score_against_swapped_key(predicted, actual) ==
    IF predicted = actual THEN 10
    ELSE LET key == <<actual, predicted>> IN
         IF key \in DOMAIN close_matches THEN close_matches[key]
         ELSE IF key \in DOMAIN partial_matches THEN partial_matches[key]
         ELSE 0

\* Variant: no exact-match test before the tables.
score_against_no_exact(predicted, actual) ==
    LET key == <<predicted, actual>> IN
    IF key \in DOMAIN close_matches THEN close_matches[key]
    ELSE IF key \in DOMAIN partial_matches THEN partial_matches[key]
    ELSE 0

\* calculate_accuracy, the part after the lookup: exact match, then the
\* tables keyed on (predicted, actual), then 0.0.
score_against(predicted, actual) ==
    IF predicted = actual THEN 10
    ELSE LET key == <<predicted, actual>> IN
         IF key \in DOMAIN close_matches THEN close_matches[key]
         ELSE IF key \in DOMAIN partial_matches THEN partial_matches[key]
         ELSE 0

\* Variant: the exact-match test made before the unknown test.
calculate_accuracy_exact_first(predicted, topic) ==
    LET gt == get_ground_truth(topic)
        actual == gt.verified_sentiment
    IN  IF predicted = actual THEN 10
        ELSE IF actual = "unknown" THEN 5
        ELSE score_against(predicted, actual)

calculate_accuracy(predicted, topic) ==
    LET gt == get_ground_truth(topic)
        actual == gt.verified_sentiment
    IN  IF actual = "unknown" THEN 5
        ELSE score_against(predicted, actual)

\* GreenAgent._calculate_score: its own copies of the two tables.
fallback_close_matches ==
    (<<"mixed", "neutral">> :> 6) @@
    (<<"neutral", "mixed">> :> 6)

fallback_partial_matches ==
    (<<"positive", "mixed">> :> 4) @@
    (<<"negative", "mixed">> :> 4) @@
    (<<"mixed", "positive">> :> 3) @@
    (<<"mixed", "negative">> :> 3)

\* Variant: partial credit only for a confident answer.
calculate_score_confidence_gated(expected, actual, confidence) ==
    IF expected = actual THEN 10
    ELSE LET key == <<expected, actual>> IN
         IF confidence < 70 THEN 0
         ELSE IF key \in DOMAIN fallback_close_matches THEN fallback_close_matches[key]
         ELSE IF key \in DOMAIN fallback_partial_matches THEN fallback_partial_matches[key]
         ELSE 0

calculate_score(expected, actual, confidence) ==
    IF expected = actual THEN 10
    ELSE LET key == <<expected, actual>> IN
         IF key \in DOMAIN fallback_close_matches THEN fallback_close_matches[key]
         ELSE IF key \in DOMAIN fallback_partial_matches THEN fallback_partial_matches[key]
         ELSE 0

(***************************************************************************)
(* green_agent.py : AssessmentResult records and the single-task           *)
(* assessment.  A response of the purple agent is a record                 *)
(*   exc         the message of the exception requests.post raised, or None*)
(*   status_code the HTTP status, text the body as text                    *)
(*   data        the decoded JSON body                                     *)
(*   elapsed     the measured round-trip time                              *)
(***************************************************************************)
\* dict.get(key, default)
Get(d, key, default) == IF key \in DOMAIN d THEN d[key] ELSE default

\* str(KeyError(key))
KeyError(key) == "'" \o key \o "'"

\* Variant: the error result given the unverifiable score 0.5.
create_error_result_neutral(test_case, error) ==
    [topic |-> test_case.topic,
     expected_sentiment |-> test_case.expected_sentiment,
     actual_sentiment |-> "error",
     confidence |-> 0,
     sources_analyzed |-> 0,
     correct |-> FALSE,
     accuracy_score |-> 5,
     time_taken |-> 0,
     category |-> Get(test_case, "category", "unknown"),
     difficulty |-> Get(test_case, "difficulty", "medium"),
     ground_truth_confidence |-> 0,
     details |-> [error |-> error],
     error |-> error]

\* GreenAgent._create_error_result
create_error_result(test_case, error) ==
    [topic |-> test_case.topic,
     expected_sentiment |-> test_case.expected_sentiment,
     actual_sentiment |-> "error",
     confidence |-> 0,
     sources_analyzed |-> 0,
     correct |-> FALSE,
     accuracy_score |-> 0,
     time_taken |-> 0,
     category |-> Get(test_case, "category", "unknown"),
     difficulty |-> Get(test_case, "difficulty", "medium"),
     ground_truth_confidence |-> 0,
     details |-> [error |-> error],
     error |-> error]

\* Variant: the score of calculate_accuracy kept as it is, no fallback.
score_result_no_fallback(test_case, result_data, elapsed) ==
    [topic |-> test_case.topic,
     expected_sentiment |-> test_case.expected_sentiment,
     actual_sentiment |-> result_data.sentiment,
     confidence |-> result_data.confidence,
     sources_analyzed |-> Get(result_data, "sources_analyzed", 0),
     correct |-> result_data.sentiment = test_case.expected_sentiment,
     accuracy_score |-> calculate_accuracy(result_data.sentiment, test_case.topic),
     time_taken |-> elapsed,
     category |-> Get(test_case, "category", "unknown"),
     difficulty |-> Get(test_case, "difficulty", "medium"),
     ground_truth_confidence |-> get_ground_truth(test_case.topic).confidence,
     details |-> result_data,
     error |-> None]

\* GreenAgent._assess_single_task, line 238: the test that sends the
\* scoring to _calculate_score.
uses_fallback(predicted, topic) == calculate_accuracy(predicted, topic) = 5

\* GreenAgent._assess_single_task, lines 232-260: the scoring of a decoded
\* result that has both required fields.
score_result(test_case, result_data, elapsed) ==
    LET gt == get_ground_truth(test_case.topic)
        gt_confidence == gt.confidence
        first_score == calculate_accuracy(result_data.sentiment, test_case.topic)
        accuracy_score ==
            IF first_score = 5
            THEN calculate_score(test_case.expected_sentiment,
                                 result_data.sentiment,
                                 result_data.confidence)
            ELSE first_score
        correct == result_data.sentiment = test_case.expected_sentiment
    IN  [topic |-> test_case.topic,
         expected_sentiment |-> test_case.expected_sentiment,
         actual_sentiment |-> result_data.sentiment,
         confidence |-> result_data.confidence,
         sources_analyzed |-> Get(result_data, "sources_analyzed", 0),
         correct |-> correct,
         accuracy_score |-> accuracy_score,
         time_taken |-> elapsed,
         category |-> Get(test_case, "category", "unknown"),
         difficulty |-> Get(test_case, "difficulty", "medium"),
         ground_truth_confidence |-> gt_confidence,
         details |-> result_data,
         error |-> None]

\* GreenAgent._assess_single_task: returns [raised, result]; raised is the
\* str() of the exception that leaves the method, None when it returns.
Raise(msg) == [raised |-> msg, result |-> NoneResult]

assess_single_task(test_case, response) ==
    IF response.exc # None THEN Raise(response.exc)
    ELSE IF response.status_code # 200
    THEN Raise("HTTP " \o ToString(response.status_code) \o ": " \o response.text)
    ELSE IF ~Get(response.data, "success", FALSE)
    THEN Raise("Assessment failed: " \o Get(response.data, "error", "Unknown error"))
    ELSE IF "result" \notin DOMAIN response.data THEN Raise(KeyError("result"))
    ELSE LET result_data == response.data.result IN
         IF "sentiment" \notin DOMAIN result_data THEN Raise(KeyError("sentiment"))
         ELSE IF "confidence" \notin DOMAIN result_data THEN Raise(KeyError("confidence"))
         ELSE [raised |-> None,
               result |-> score_result(test_case, result_data, response.elapsed)]

(***************************************************************************)
(* Input sets.                                                             *)
(***************************************************************************)
Verdict == {"positive", "negative", "neutral", "mixed"}

\* What a caller can pass as a predicted / expected sentiment: the four
\* verdicts, the sentinel word, and a string outside the closed set.
Sentiments == Verdict \cup {"unknown", "very positive"}

\* Topic strings with no entry in the store (two differ from a key only in
\* case and in a trailing blank).
UnknownTopics == {"iphone 16", "iPhone 16 ", "quantum toasters"}

Topics == DOMAIN GROUND_TRUTH \cup UnknownTopics

Confidences == {50, 90}

\* Bounds of the runner's inputs.
MaxCases == 2
MaxRetries == 3

\* Test cases: two shipped ones (test_topics.py; for "inflation 2024" the
\* expected sentiment differs from the verified one) and one for a topic
\* without ground truth, given without category and difficulty.
TestCasePool ==
    {[topic |-> "iPhone 16", expected_sentiment |-> "positive",
      category |-> "technology", difficulty |-> "easy"],
     [topic |-> "inflation 2024", expected_sentiment |-> "negative",
      category |-> "economy", difficulty |-> "easy"],
     [topic |-> "quantum toasters", expected_sentiment |-> "mixed"]}

TestCaseLists == UNION {[1..n -> TestCasePool] : n \in 0..MaxCases}

\* Sentiment strings a purple agent can answer with.
ResponseSentiments == Verdict \cup {"very positive"}

\* Result payloads: complete ones, one without sentiment, one without confidence.
ResultPayloads ==
    {[sentiment |-> s, confidence |-> 90, sources_analyzed |-> 5] : s \in ResponseSentiments}
    \cup {[confidence |-> 90, sources_analyzed |-> 5]}
    \cup {[sentiment |-> "positive"]}

Responses ==
    {[exc |-> "Read timed out", status_code |-> 0, text |-> "", data |-> <<>>, elapsed |-> 0]}
    \cup {[exc |-> None, status_code |-> 500, text |-> "Internal Server Error",
           data |-> <<>>, elapsed |-> 3]}
    \cup {[exc |-> None, status_code |-> 200, text |-> "",
           data |-> [success |-> FALSE, error |-> "No sources found"], elapsed |-> 3]}
    \cup {[exc |-> None, status_code |-> 200, text |-> "",
           data |-> [success |-> TRUE, result |-> r], elapsed |-> 3] : r \in ResultPayloads}

(***************************************************************************)
(* green_agent.py : GreenAgent.generate_report.  A quotient a / b of the   *)
(* source is kept as the pair <<a, b>>.  The wall-clock field total_time   *)
(* is left out.                                                            *)
(***************************************************************************)
RECURSIVE SumSeq(_)
\* sum(...) over a list of numbers
SumSeq(s) == IF s = <<>> THEN 0 ELSE Head(s) + SumSeq(Tail(s))

\* [f(r) for r in list]
Field(list, f) == [k \in 1..Len(list) |-> list[k][f]]

\* a / b
Div(a, b) == <<a, b>>

\* max(a, b)
Max(a, b) == IF a >= b THEN a ELSE b

\* Variant: every result counted as successful.
IsSuccess_any(r) == TRUE

IsSuccess(r) == r.error = None

IsCorrect(r) == r.correct

\* the early return of lines 312-313
NoDataReport == [error |-> "No results available", summary |-> <<>>, results |-> <<>>]

\* Variant: the group's figures divided by the number of all results.
category_stats_over_all(list) ==
    [cat \in {list[k].category : k \in 1..Len(list)} |->
        LET data == SelectSeq(list, LAMBDA r : r.category = cat) IN
        [accuracy |-> Div(Len(SelectSeq(data, IsCorrect)), Len(list)),
         average_score |-> Div(SumSeq(Field(data, "accuracy_score")), Len(list)),
         average_time |-> Div(SumSeq(Field(data, "time_taken")), Len(list)),
         total_tests |-> Len(data)]]

\* lines 324-334 and 347-355: the per-category statistics
category_stats(list) ==
    [cat \in {list[k].category : k \in 1..Len(list)} |->
        LET data == SelectSeq(list, LAMBDA r : r.category = cat) IN
        [accuracy |-> Div(Len(SelectSeq(data, IsCorrect)), Len(data)),
         average_score |-> Div(SumSeq(Field(data, "accuracy_score")), Len(data)),
         average_time |-> Div(SumSeq(Field(data, "time_taken")), Len(data)),
         total_tests |-> Len(data)]]

\* lines 336-345 and 357-364: the per-difficulty statistics
difficulty_stats(list) ==
    [diff \in {list[k].difficulty : k \in 1..Len(list)} |->
        LET data == SelectSeq(list, LAMBDA r : r.difficulty = diff) IN
        [accuracy |-> Div(Len(SelectSeq(data, IsCorrect)), Len(data)),
         average_score |-> Div(SumSeq(Field(data, "accuracy_score")), Len(data)),
         total_tests |-> Len(data)]]

\* Variant: the results without error only.
report_results_successes_only(list) ==
    LET data == SelectSeq(list, IsSuccess) IN
    [k \in 1..Len(data) |->
        [topic |-> data[k].topic,
         expected |-> data[k].expected_sentiment,
         actual |-> data[k].actual_sentiment,
         correct |-> data[k].correct,
         score |-> data[k].accuracy_score,
         confidence |-> data[k].confidence,
         time |-> data[k].time_taken,
         category |-> data[k].category,
         difficulty |-> data[k].difficulty,
         sources |-> data[k].sources_analyzed,
         ground_truth_confidence |-> data[k].ground_truth_confidence,
         error |-> data[k].error]]

\* lines 381-397: one dict per result
report_results(list) ==
    [k \in 1..Len(list) |->
        [topic |-> list[k].topic,
         expected |-> list[k].expected_sentiment,
         actual |-> list[k].actual_sentiment,
         correct |-> list[k].correct,
         score |-> list[k].accuracy_score,
         confidence |-> list[k].confidence,
         time |-> list[k].time_taken,
         category |-> list[k].category,
         difficulty |-> list[k].difficulty,
         sources |-> list[k].sources_analyzed,
         ground_truth_confidence |-> list[k].ground_truth_confidence,
         error |-> list[k].error]]

\* lines 315-398; the division of line 319 raises when the list is empty.
\* Returns [raised, value] like assess_single_task.
report_body(list) ==
    LET total == Len(list)
        successful == Len(SelectSeq(list, IsSuccess))
        correct == Len(SelectSeq(list, IsCorrect))
        total_score == SumSeq(Field(list, "accuracy_score"))
    IN  IF total = 0
        THEN [raised |-> "division by zero", value |-> NoneResult]
        ELSE [raised |-> None,
              value |->
                [summary |->
                    [total_tests |-> total,
                     successful_tests |-> successful,
                     failed_tests |-> total - successful,
                     correct |-> correct,
                     accuracy |-> Div(correct, total),
                     average_score |-> Div(total_score, total),
                     average_time |-> Div(SumSeq(Field(list, "time_taken")), total),
                     average_confidence |->
                        Div(SumSeq(Field(SelectSeq(list, IsSuccess), "confidence")),
                            Max(successful, 1)),
                     pass_rate |-> Div(correct, total)],
                 by_category |-> category_stats(list),
                 by_difficulty |-> difficulty_stats(list),
                 results |-> report_results(list)]]

\* Variant: no early return for an empty list.
generate_report_no_guard(list) == report_body(list)

generate_report(list) ==
    IF list = <<>>
    THEN [raised |-> None, value |-> NoDataReport]
    ELSE report_body(list)

\* main reads max_retries from the default of assess_purple_agent.
DefaultMaxRetries == 3

\* GreenAgent.save_results: the dict written to the output file, or the
\* KeyError of reading the summary of a no-data report.
save_results(list) ==
    LET rep == generate_report(list) IN
    IF rep.raised # None THEN Raise(rep.raised)
    ELSE IF "pass_rate" \notin DOMAIN rep.value.summary THEN Raise(KeyError("pass_rate"))
    ELSE [raised |-> None,
          result |->
            [results |-> <<[pass_rate |-> rep.value.summary.pass_rate,
                            time_used |-> rep.value.summary.average_time,
                            max_score |-> 10,
                            details |-> rep.value]>>,
             metadata |-> [total_tasks |-> rep.value.summary.total_tests]]]

(***************************************************************************)
(* aggregation.py : SentimentAggregator.  A judgment (SentimentResult) is  *)
(* kept as [sentiment, confidence]; the other fields are never read.  A    *)
(* (sentiment, confidence) return value is a record, its confidence a      *)
(* quotient <<a, b>>; the literal 0.0 is <<0, 1>>.  Thresholds are in      *)
(* hundredths.                                                             *)
(***************************************************************************)
Zero == <<0, 1>>

\* q < t / 100, for a quotient q with a positive denominator
Below(q, t) == 100 * q[1] < t * q[2]

RECURSIVE FirstSeen(_)
\* The keys of Counter(sentiments) / of the weights dict, in insertion order.
FirstSeen(list) ==
    IF list = <<>> THEN <<>>
    ELSE LET init == FirstSeen(SubSeq(list, 1, Len(list) - 1))
             last == list[Len(list)].sentiment
         IN  IF \E k \in 1..Len(init) : init[k] = last THEN init ELSE Append(init, last)

\* counter[sentiment]
CountOf(list, sentiment) ==
    Len(SelectSeq(list, LAMBDA r : r.sentiment = sentiment))

\* weights[sentiment]
WeightOf(list, sentiment) ==
    SumSeq(Field(SelectSeq(list, LAMBDA r : r.sentiment = sentiment), "confidence"))

\* max(keys, key=f) and Counter.most_common(1): the first key, in
\* insertion order, whose value no other key exceeds.
FirstMax(keys, value) ==
    LET best == CHOOSE k \in 1..Len(keys) :
                    /\ \A j \in 1..Len(keys) : value[keys[j]] <= value[keys[k]]
                    /\ \A j \in 1..(k - 1) : value[keys[j]] < value[keys[k]]
    IN  keys[best]

\* Variant: the verdict seen first wins, whatever its count.
simple_majority_first_seen(list) ==
    IF list = <<>> THEN [sentiment |-> "neutral", confidence |-> Zero]
    ELSE LET counter == [sent \in Verdict |-> CountOf(list, sent)]
             most_common == FirstSeen(list)[1]
         IN  [sentiment |-> most_common,
              confidence |-> Div(counter[most_common], Len(list))]

simple_majority(list) ==
    IF list = <<>> THEN [sentiment |-> "neutral", confidence |-> Zero]
    ELSE LET counter == [sent \in Verdict |-> CountOf(list, sent)]
             most_common == FirstMax(FirstSeen(list), counter)
         IN  [sentiment |-> most_common,
              confidence |-> Div(counter[most_common], Len(list))]

\* Variant: the winner is chosen by vote count, not by summed confidence.
weighted_by_confidence_by_votes(list) ==
    IF list = <<>> THEN [sentiment |-> "neutral", confidence |-> Zero]
    ELSE LET weights == [sent \in Verdict |-> WeightOf(list, sent)]
             total_weight == SumSeq(Field(list, "confidence"))
         IN  IF total_weight = 0 THEN [sentiment |-> "neutral", confidence |-> Zero]
             ELSE LET max_sentiment ==
                          FirstMax(FirstSeen(list), [sent \in Verdict |-> CountOf(list, sent)])
                  IN  [sentiment |-> max_sentiment,
                       confidence |-> Div(weights[max_sentiment], total_weight)]

weighted_by_confidence(list) ==
    IF list = <<>> THEN [sentiment |-> "neutral", confidence |-> Zero]
    ELSE LET weights == [sent \in Verdict |-> WeightOf(list, sent)]
             total_weight == SumSeq(Field(list, "confidence"))
         IN  IF total_weight = 0 THEN [sentiment |-> "neutral", confidence |-> Zero]
             ELSE LET max_sentiment == FirstMax(FirstSeen(list), weights)
                  IN  [sentiment |-> max_sentiment,
                       confidence |-> Div(weights[max_sentiment], total_weight)]

\* Variant: a confidence equal to the threshold is overridden as well.
consensus_based_inclusive(list, threshold) ==
    IF list = <<>> THEN [sentiment |-> "neutral", confidence |-> Zero]
    ELSE LET w == weighted_by_confidence(list) IN
         IF 100 * w.confidence[1] <= threshold * w.confidence[2]
         THEN [sentiment |-> "mixed", confidence |-> w.confidence]
         ELSE w

consensus_based(list, threshold) ==
    IF list = <<>> THEN [sentiment |-> "neutral", confidence |-> Zero]
    ELSE LET w == weighted_by_confidence(list) IN
         IF Below(w.confidence, threshold)
         THEN [sentiment |-> "mixed", confidence |-> w.confidence]
         ELSE w

\* Variant: strictly more than a quarter on each side.
detect_controversy_strict(list) ==
    IF Len(list) < 3 THEN FALSE
    ELSE LET positive == CountOf(list, "positive")
             negative == CountOf(list, "negative")
             total == Len(list)
         IN  (4 * positive > total) /\ (4 * negative > total)

\* positive / total >= 0.25 is 4 * positive >= total
detect_controversy(list) ==
    IF Len(list) < 3 THEN FALSE
    ELSE LET positive == CountOf(list, "positive")
             negative == CountOf(list, "negative")
             total == Len(list)
         IN  (4 * positive >= total) /\ (4 * negative >= total)

\* Variant: each count divided by the number of distinct verdicts.
get_sentiment_distribution_per_verdict(list) ==
    IF list = <<>> THEN <<>>
    ELSE [sent \in {list[k].sentiment : k \in 1..Len(list)} |->
            Div(CountOf(list, sent), Cardinality({list[k].sentiment : k \in 1..Len(list)}))]

get_sentiment_distribution(list) ==
    IF list = <<>> THEN <<>>
    ELSE [sent \in {list[k].sentiment : k \in 1..Len(list)} |->
            Div(CountOf(list, sent), Len(list))]

RECURSIVE Sorted(_)
\* sorted(confidences)
Sorted(xs) ==
    IF xs = <<>> THEN <<>>
    ELSE LET m == CHOOSE k \in 1..Len(xs) : \A j \in 1..Len(xs) : xs[k] <= xs[j]
         IN  <<xs[m]>> \o Sorted(SubSeq(xs, 1, m - 1) \o SubSeq(xs, m + 1, Len(xs)))

calculate_confidence_stats(list) ==
    IF list = <<>> THEN [mean |-> Zero, min |-> 0, max |-> 0]
    ELSE LET confidences == Field(list, "confidence")
             sorted == Sorted(confidences)
         IN  [mean |-> Div(SumSeq(confidences), Len(confidences)),
              min |-> sorted[1],
              max |-> sorted[Len(sorted)],
              median |-> sorted[(Len(confidences) \div 2) + 1]]

\* consensus_based's default threshold
DefaultThreshold == 70

\* Variant: no guard of its own for the empty list, whose confidence 0.0 is
\* then treated as one below the threshold.
aggregate_advanced_threshold_on_empty(list) ==
    LET c == IF Below(weighted_by_confidence(list).confidence, DefaultThreshold)
             THEN [sentiment |-> "mixed",
                   confidence |-> weighted_by_confidence(list).confidence]
             ELSE weighted_by_confidence(list)
        is_controversial == detect_controversy(list)
        sentiment == IF is_controversial /\ c.sentiment \notin {"mixed", "neutral"}
                     THEN "mixed"
                     ELSE c.sentiment
    IN  [overall_sentiment |-> sentiment,
         confidence |-> c.confidence,
         is_controversial |-> is_controversial,
         distribution |-> get_sentiment_distribution(list),
         confidence_stats |-> calculate_confidence_stats(list)]

\* Variant: the controversy flag is reported but does not change the verdict.
aggregate_advanced_no_override(list) ==
    IF list = <<>>
    THEN [overall_sentiment |-> "neutral",
          confidence |-> Zero,
          is_controversial |-> FALSE,
          distribution |-> <<>>,
          confidence_stats |-> <<>>]
    ELSE LET c == consensus_based(list, DefaultThreshold)
         IN  [overall_sentiment |-> c.sentiment,
              confidence |-> c.confidence,
              is_controversial |-> detect_controversy(list),
              distribution |-> get_sentiment_distribution(list),
              confidence_stats |-> calculate_confidence_stats(list)]

aggregate_advanced(list) ==
    IF list = <<>>
    THEN [overall_sentiment |-> "neutral",
          confidence |-> Zero,
          is_controversial |-> FALSE,
          distribution |-> <<>>,
          confidence_stats |-> <<>>]
    ELSE LET c == consensus_based(list, DefaultThreshold)
             is_controversial == detect_controversy(list)
             sentiment == IF is_controversial /\ c.sentiment \notin {"mixed", "neutral"}
                          THEN "mixed"
                          ELSE c.sentiment
         IN  [overall_sentiment |-> sentiment,
              confidence |-> c.confidence,
              is_controversial |-> is_controversial,
              distribution |-> get_sentiment_distribution(list),
              confidence_stats |-> calculate_confidence_stats(list)]

\* Variant: the method consumes its argument (results.pop()).
results_after_pop(list) ==
    IF list = <<>> THEN list ELSE SubSeq(list, 1, Len(list) - 1)

\* The caller's list as aggregate_advanced leaves it.  The method and the
\* four methods it calls only read results: list comprehensions, Counter,
\* sum, min, max and sorted() build new objects, and nothing assigns to
\* results, to an element of it or to a field of a SentimentResult.
results_after(list) == list

\* Bound of the aggregator's input.
MaxJudgments == 5

\* Judgments: every verdict, with no weight or with a high confidence.
JudgmentPool == {[sentiment |-> sent, confidence |-> c] : sent \in Verdict, c \in {0, 90}}

\* The two aggregation scenarios of the documentation:
\* [positive@0.9, positive@0.8, negative@0.7] and [positive@0.9, positive@0.85].
ScenarioLists ==
    {<<[sentiment |-> "positive", confidence |-> 90],
       [sentiment |-> "positive", confidence |-> 80],
       [sentiment |-> "negative", confidence |-> 70]>>,
     <<[sentiment |-> "positive", confidence |-> 90],
       [sentiment |-> "positive", confidence |-> 85]>>}

JudgmentLists ==
    UNION {[1..n -> JudgmentPool] : n \in 0..MaxJudgments} \cup ScenarioLists

\* Thresholds a caller passes to consensus_based.
Thresholds == {0, 50, 70, 100}

VARIABLES predicted, topic, expected, confidence, accuracy, score, called,
          ground_truth, gt,
          test_cases, max_retries, i, attempt, e, results, self_results, pc,
          report, exit_code, saved,
          judgments, call, ret

scoreVars == <<predicted, topic, expected, confidence, accuracy, score, called,
               ground_truth, gt>>

mainVars == <<report, exit_code, saved>>

runVars == <<test_cases, max_retries, i, attempt, e, results, self_results, pc, mainVars>>

aggVars == <<judgments, call, ret>>

vars == <<scoreVars, runVars, aggVars>>

\* The variables of the other specification, at rest.
RunIdle ==
    /\ test_cases = <<>>
    /\ max_retries = 0
    /\ i = 1
    /\ attempt = 0
    /\ e = None
    /\ results = <<>>
    /\ self_results = <<>>
    /\ pc = "idle"
    /\ report = NoneResult
    /\ exit_code = None
    /\ saved = NoneResult

ScoreIdle ==
    /\ predicted = None
    /\ topic = None
    /\ expected = None
    /\ confidence = 0
    /\ accuracy = 0
    /\ score = 0
    /\ called = {}
    /\ ground_truth = GROUND_TRUTH
    /\ gt = NoneResult

AggIdle ==
    /\ judgments = <<>>
    /\ call = "idle"
    /\ ret = None

(***************************************************************************)
(* SpecScore: the two scorers applied to bounded inputs.  called is the    *)
(* set of scorers that have returned; accuracy and score hold their        *)
(* return values (0 before the call).                                      *)
(***************************************************************************)
InitScore ==
    /\ predicted \in Sentiments
    /\ topic \in Topics
    /\ expected \in Sentiments
    /\ confidence \in Confidences
    /\ accuracy = 0
    /\ score = 0
    /\ called = {}
    /\ ground_truth = GROUND_TRUTH
    /\ gt = NoneResult
    /\ RunIdle
    /\ AggIdle

CalculateAccuracy ==
    /\ "calculate_accuracy" \notin called
    /\ accuracy' = calculate_accuracy(predicted, topic)
    /\ called' = called \cup {"calculate_accuracy"}
    /\ UNCHANGED <<predicted, topic, expected, confidence, score, ground_truth, gt,
                   runVars, aggVars>>

CalculateScore ==
    /\ "_calculate_score" \notin called
    /\ score' = calculate_score(expected, predicted, confidence)
    /\ called' = called \cup {"_calculate_score"}
    /\ UNCHANGED <<predicted, topic, expected, confidence, accuracy, ground_truth, gt,
                   runVars, aggVars>>

\* A direct lookup; gt is the entry returned, ground_truth the module's
\* dict after the call.
GetGroundTruth ==
    /\ "get_ground_truth" \notin called
    /\ gt' = get_ground_truth(topic)
    /\ ground_truth' = store_after_get(ground_truth, topic)
    /\ called' = called \cup {"get_ground_truth"}
    /\ UNCHANGED <<predicted, topic, expected, confidence, accuracy, score,
                   runVars, aggVars>>

NextScore == CalculateAccuracy \/ CalculateScore \/ GetGroundTruth

SpecScore == InitScore /\ [][NextScore]_vars

(***************************************************************************)
(* Spec: GreenAgent.assess_purple_agent.                                   *)
(*   i        the index of the test case the outer loop is at (1-based)    *)
(*   attempt  the retry loop's variable                                    *)
(*   e        str() of the exception caught last                           *)
(*   results  the local list; self_results is self.results                 *)
(*   pc       "pending": about to run an attempt of test case i, or to     *)
(*            leave the loops; "dispatched": inside requests.post;         *)
(*            "sleeping": inside time.sleep(2); "done": returned;          *)
(*            "reported": generate_report returned; "exited": main left    *)
(*   report   the dict generate_report returned                            *)
(*   exit_code, saved   main's exit status and the dict save_results wrote *)
(***************************************************************************)
Init ==
    /\ test_cases \in TestCaseLists
    /\ max_retries \in 0..MaxRetries
    /\ i = 1
    /\ attempt = 0
    /\ e = None
    /\ results = <<>>
    /\ self_results = <<>>
    /\ pc = "pending"
    /\ report = NoneResult
    /\ exit_code = None
    /\ saved = NoneResult
    /\ ScoreIdle
    /\ AggIdle

\* Variant: the result put at the front of the list.
AppendIfResult_prepend(list, result) ==
    IF result # NoneResult THEN <<result>> \o list ELSE list

\* `if result: results.append(result)`; an AssessmentResult is always truthy.
AppendIfResult(list, result) ==
    IF result # NoneResult THEN Append(list, result) ELSE list

\* The end of one pass of the outer loop: lines 170-181, then the next test case.
NextTestCase(result) ==
    /\ results' = AppendIfResult(results, result)
    /\ i' = i + 1
    /\ attempt' = 0
    /\ pc' = "pending"

\* An attempt starts: _assess_single_task sends the request (line 212).
Dispatch ==
    /\ pc = "pending"
    /\ i <= Len(test_cases)
    /\ attempt < max_retries
    /\ pc' = "dispatched"
    /\ UNCHANGED <<test_cases, max_retries, i, attempt, e, results, self_results, mainVars, scoreVars, aggVars>>

\* The request returns and _assess_single_task returns a result: break.
RespondSuccess ==
    /\ pc = "dispatched"
    /\ \E response \in Responses :
         LET out == assess_single_task(test_cases[i], response) IN
         /\ out.raised = None
         /\ NextTestCase(out.result)
    /\ UNCHANGED <<test_cases, max_retries, e, self_results, mainVars, scoreVars, aggVars>>

\* Variant: a wait after every failed attempt, the last one included.
RespondRetry_always ==
    /\ pc = "dispatched"
    /\ \E response \in Responses :
         LET out == assess_single_task(test_cases[i], response) IN
         /\ out.raised # None
         /\ e' = out.raised
    /\ pc' = "sleeping"
    /\ UNCHANGED <<test_cases, max_retries, i, attempt, results, self_results, mainVars, scoreVars, aggVars>>

\* _assess_single_task raises and attempts remain: warn, then time.sleep(2).
RespondRetry ==
    /\ pc = "dispatched"
    /\ attempt < max_retries - 1
    /\ \E response \in Responses :
         LET out == assess_single_task(test_cases[i], response) IN
         /\ out.raised # None
         /\ e' = out.raised
    /\ pc' = "sleeping"
    /\ UNCHANGED <<test_cases, max_retries, i, attempt, results, self_results, mainVars, scoreVars, aggVars>>

\* _assess_single_task raises on the last attempt: the error result.
RespondExhausted ==
    /\ pc = "dispatched"
    /\ ~(attempt < max_retries - 1)
    /\ \E response \in Responses :
         LET out == assess_single_task(test_cases[i], response) IN
         /\ out.raised # None
         /\ e' = out.raised
         /\ NextTestCase(create_error_result(test_cases[i], out.raised))
    /\ UNCHANGED <<test_cases, max_retries, self_results, mainVars, scoreVars, aggVars>>

\* time.sleep(2) returns; the retry loop takes its next value.
Sleep ==
    /\ pc = "sleeping"
    /\ attempt' = attempt + 1
    /\ pc' = "pending"
    /\ UNCHANGED <<test_cases, max_retries, i, e, results, self_results, mainVars, scoreVars, aggVars>>

\* range(max_retries) is empty: the retry loop's body never runs and
\* result stays None.
NoAttempt ==
    /\ pc = "pending"
    /\ i <= Len(test_cases)
    /\ attempt = 0
    /\ ~(attempt < max_retries)
    /\ NextTestCase(NoneResult)
    /\ UNCHANGED <<test_cases, max_retries, e, self_results, mainVars, scoreVars, aggVars>>

\* The outer loop is over: self.results = results; return results.
Return ==
    /\ pc = "pending"
    /\ i > Len(test_cases)
    /\ self_results' = results
    /\ pc' = "done"
    /\ UNCHANGED <<test_cases, max_retries, i, attempt, e, results, mainVars, scoreVars, aggVars>>

\* generate_report() on self.results, after assess_purple_agent returned
\* (main, line 462).  A raise leaves report unset.
GenerateReport ==
    /\ pc = "done"
    /\ LET out == generate_report(self_results) IN
         IF out.raised = None
         THEN report' = out.value /\ pc' = "reported"
         ELSE report' = report /\ pc' = "report raised"
    /\ UNCHANGED <<test_cases, max_retries, i, attempt, e, results, self_results,
                   exit_code, saved, scoreVars, aggVars>>

\* main, lines 464-496: the report is logged (the summary's keys are
\* read), save_results writes the file, sys.exit(0).
MainComplete ==
    /\ pc = "reported"
    /\ max_retries = DefaultMaxRetries
    /\ "total_tests" \in DOMAIN report.summary
    /\ LET out == save_results(self_results) IN
         /\ out.raised = None
         /\ saved' = out.result
    /\ exit_code' = 0
    /\ pc' = "exited"
    /\ UNCHANGED <<test_cases, max_retries, i, attempt, e, results, self_results,
                   report, scoreVars, aggVars>>

\* main, lines 498-503: report['summary']['total_tests'] raises KeyError,
\* `except Exception` logs it, sys.exit(1).
MainFail ==
    /\ pc = "reported"
    /\ max_retries = DefaultMaxRetries
    /\ "total_tests" \notin DOMAIN report.summary
    /\ exit_code' = 1
    /\ pc' = "exited"
    /\ UNCHANGED <<test_cases, max_retries, i, attempt, e, results, self_results,
                   report, saved, scoreVars, aggVars>>

Next ==
    \/ Dispatch
    \/ RespondSuccess
    \/ RespondRetry
    \/ RespondExhausted
    \/ Sleep
    \/ NoAttempt
    \/ Return
    \/ GenerateReport
    \/ MainComplete
    \/ MainFail

Spec == Init /\ [][Next]_vars

\* The batch is driven by one thread that never stops by itself, and every
\* request returns or raises: each enabled step is eventually taken.
FairSpec == Spec /\ WF_vars(Next)

(***************************************************************************)
(* SpecAgg: one call of a SentimentAggregator method on a bounded list of  *)
(* judgments.  call is the method that has returned ("none" before), ret   *)
(* its return value; consensus_based returns one value per threshold.      *)
(* judgments is the caller's list object.                                  *)
(***************************************************************************)
InitAgg ==
    /\ judgments \in JudgmentLists
    /\ call = "none"
    /\ ret = None
    /\ ScoreIdle
    /\ RunIdle

Returns(method, value) ==
    /\ call = "none"
    /\ call' = method
    /\ ret' = value
    /\ UNCHANGED <<judgments, scoreVars, runVars>>

SimpleMajority == Returns("simple_majority", simple_majority(judgments))

WeightedByConfidence == Returns("weighted_by_confidence", weighted_by_confidence(judgments))

ConsensusBased ==
    Returns("consensus_based", [t \in Thresholds |-> consensus_based(judgments, t)])

DetectControversy == Returns("detect_controversy", detect_controversy(judgments))

GetSentimentDistribution ==
    Returns("get_sentiment_distribution", get_sentiment_distribution(judgments))

AggregateAdvanced ==
    /\ call = "none"
    /\ call' = "aggregate_advanced"
    /\ ret' = aggregate_advanced(judgments)
    /\ judgments' = results_after(judgments)
    /\ UNCHANGED <<scoreVars, runVars>>

\* A second call on the same list object; ret keeps both outcomes.
AggregateAdvancedAgain ==
    /\ call = "aggregate_advanced"
    /\ call' = "aggregate_advanced again"
    /\ ret' = [first |-> ret, second |-> aggregate_advanced(judgments)]
    /\ judgments' = results_after(judgments)
    /\ UNCHANGED <<scoreVars, runVars>>

NextAgg ==
    \/ SimpleMajority
    \/ WeightedByConfidence
    \/ ConsensusBased
    \/ DetectControversy
    \/ GetSentimentDistribution
    \/ AggregateAdvanced
    \/ AggregateAdvancedAgain

SpecAgg == InitAgg /\ [][NextAgg]_vars

(***************************************************************************)
(* Properties of the scorers (SpecScore).                                  *)
(***************************************************************************)
Known == topic \in DOMAIN GROUND_TRUTH

Scored == "calculate_accuracy" \in called

\* C1: for every predicted value and every topic with a known verified
\* verdict, calculate_accuracy returns the literal rubric keyed on the
\* ordered pair (predicted, verified): 1.0 on equality, 0.6 for
\* (mixed, neutral) and (neutral, mixed), 0.4 for (positive, mixed) and
\* (negative, mixed), 0.3 for (mixed, positive) and (mixed, negative), 0.0
\* otherwise; on the partial-credit pairs the score differs from the score
\* of the swapped pair.
C1_OrderedRubric ==
    (Scored /\ Known) =>
        LET p == predicted
            v == GROUND_TRUTH[topic].verified_sentiment
            key == <<p, v>>
        IN  /\ accuracy =
                 CASE p = v -> 10
                   [] p # v /\ key \in {<<"mixed", "neutral">>, <<"neutral", "mixed">>} -> 6
                   [] p # v /\ key \in {<<"positive", "mixed">>, <<"negative", "mixed">>} -> 4
                   [] p # v /\ key \in {<<"mixed", "positive">>, <<"mixed", "negative">>} -> 3
                   [] OTHER -> 0
            /\ key \in {<<"positive", "mixed">>, <<"negative", "mixed">>,
                        <<"mixed", "positive">>, <<"mixed", "negative">>}
                 => accuracy # score_against(v, p)

C1_Witness ==
    /\ Scored
    /\ predicted = "positive"
    /\ topic = "ChatGPT"
    /\ accuracy = 4

\* C2: for a topic whose verified verdict is known, calculate_accuracy
\* returns one of 0.0, 0.3, 0.4, 0.6, 1.0, and 1.0 whenever the predicted
\* value equals the verified verdict.
C2_ScoreRange ==
    (Scored /\ Known) =>
        /\ accuracy \in {0, 3, 4, 6, 10}
        /\ predicted = GROUND_TRUTH[topic].verified_sentiment => accuracy = 10

C2_Witness ==
    /\ Scored
    /\ topic = "climate change"
    /\ predicted = "negative"
    /\ accuracy = 10

\* C3: for a topic without a ground-truth entry calculate_accuracy returns
\* exactly 0.5 for every predicted value, also for the predicted value
\* "unknown", which equals the sentinel verdict.
C3_UnknownIsHalf ==
    (Scored /\ ~Known) => accuracy = 5

C3_Witness ==
    /\ Scored
    /\ topic = "quantum toasters"
    /\ predicted = "unknown"
    /\ accuracy = 5

\* C4 as stated: for "iPhone 16" (verified positive) a predicted mixed is
\* scored 0.0.
C4_Original ==
    (Scored /\ topic = "iPhone 16" /\ predicted = "mixed") => accuracy = 0

\* C4 amended: for "iPhone 16", whose verified verdict is positive, a
\* predicted mixed is scored 0.3, the table's value for (mixed, positive).
C4_MixedOnPositive ==
    /\ GROUND_TRUTH["iPhone 16"].verified_sentiment = "positive"
    /\ (Scored /\ topic = "iPhone 16" /\ predicted = "mixed") => accuracy = 3

C4_Witness ==
    /\ Scored
    /\ topic = "iPhone 16"
    /\ predicted = "mixed"

\* C6: for every ordered pair of verdicts (x, y), _calculate_score(expected
\* = x, actual = y) equals the score the rubric of calculate_accuracy gives
\* the key (x, y), and no confidence value changes it.
C6_FallbackSameTable ==
    ("_calculate_score" \in called /\ expected \in Verdict /\ predicted \in Verdict) =>
        /\ score = score_against(expected, predicted)
        /\ \A c \in Confidences : calculate_score(expected, predicted, c) = score

C6_Witness ==
    /\ "_calculate_score" \in called
    /\ expected = "mixed"
    /\ predicted = "positive"
    /\ confidence = 50
    /\ score = 3

(***************************************************************************)
(* Properties of the runner (Spec).                                        *)
(***************************************************************************)
Malformed == {KeyError("result"), KeyError("sentiment"), KeyError("confidence")}

\* C5 as stated: a successful answer for a topic without ground truth gets
\* accuracy_score 0.5.
C5_Original ==
    \A k \in 1..Len(results) :
        (results[k].error = None /\ results[k].topic \notin DOMAIN GROUND_TRUTH)
            => results[k].accuracy_score = 5

\* C5 amended: a successful answer for a topic without ground truth gets
\* the fallback scorer's value for (expected, actual): 1.0 when the two are
\* equal, else the table value keyed on (expected_sentiment, answered
\* sentiment), else 0.0; it is never 0.5.
C5_UnknownTopicFallback ==
    \A k \in 1..Len(results) :
        (results[k].error = None /\ results[k].topic \notin DOMAIN GROUND_TRUTH) =>
            LET x == results[k].expected_sentiment
                y == results[k].actual_sentiment
            IN  /\ results[k].accuracy_score =
                     CASE x = y -> 10
                       [] x # y /\ <<x, y>> \in {<<"mixed", "neutral">>, <<"neutral", "mixed">>} -> 6
                       [] x # y /\ <<x, y>> \in {<<"positive", "mixed">>, <<"negative", "mixed">>} -> 4
                       [] x # y /\ <<x, y>> \in {<<"mixed", "positive">>, <<"mixed", "negative">>} -> 3
                       [] OTHER -> 0
                /\ results[k].accuracy_score # 5

C5_Witness ==
    \E k \in 1..Len(results) :
        /\ results[k].error = None
        /\ results[k].topic = "quantum toasters"
        /\ results[k].actual_sentiment = "positive"
        /\ results[k].accuracy_score = 3

\* C7: when assess_purple_agent has returned, self.results holds exactly
\* one AssessmentResult per test case, in order, each with that test
\* case's topic, for every max_retries >= 0.
C7_OneResultPerTestCase ==
    pc = "done" =>
        /\ Len(self_results) = Len(test_cases)
        /\ \A k \in 1..Len(self_results) : self_results[k].topic = test_cases[k].topic

\* C8: a result with a non-null error has actual_sentiment "error",
\* accuracy_score 0.0 and correct false; and the step in which the last of
\* the max_retries attempts raises appends such a result for the current
\* test case, with error equal to the message of that last exception.
C8_ExhaustedIsErrorResult ==
    /\ [](\A k \in 1..Len(results) :
            results[k].error # None =>
                /\ results[k].actual_sentiment = "error"
                /\ results[k].accuracy_score = 0
                /\ results[k].correct = FALSE)
    /\ [][RespondExhausted =>
            /\ attempt = max_retries - 1
            /\ Len(results') = Len(results) + 1
            /\ LET r == results'[Len(results')] IN
                 /\ r.topic = test_cases[i].topic
                 /\ r.actual_sentiment = "error"
                 /\ r.accuracy_score = 0
                 /\ r.correct = FALSE
                 /\ r.error = e'
                 /\ r.error # None]_vars

C8_Witness ==
    /\ pc = "done"
    /\ max_retries = 3
    /\ e = "Read timed out"
    /\ \E k \in 1..Len(self_results) :
         /\ self_results[k].error = "Read timed out"
         /\ self_results[k].actual_sentiment = "error"

\* C9: after a malformed response (success true, a required field
\* missing) no further request is dispatched for the same test case.
C9_MalformedNotRetried ==
    ~(pc = "dispatched" /\ attempt > 0 /\ e \in Malformed)

\* C10: no AssessmentResult with a null error carries an actual_sentiment
\* outside {positive, negative, neutral, mixed}.
C10_ClosedVerdictSet ==
    \A k \in 1..Len(results) :
        results[k].error = None => results[k].actual_sentiment \in Verdict


(***************************************************************************)
(* Properties of the batch, the report and main (Spec).                    *)
(***************************************************************************)
RECURSIVE SumOver(_, _)
\* The sum of f[k] over the index set S.
SumOver(S, f) ==
    IF S = {} THEN 0
    ELSE LET k == CHOOSE x \in S : TRUE IN f[k] + SumOver(S \ {k}, f)

Reported == pc \in {"reported", "exited"}

\* Every fair run of the batch reaches the return of generate_report.
Terminates == <>(pc = "reported")

\* C11: when the batch has run and generate_report has returned, every
\* test case is in a terminal state (it has its result, scored or
\* exhausted) and the report is a report object.
C11_AllTerminalThenReport ==
    pc = "reported" =>
        /\ report # NoneResult
        /\ Len(self_results) = Len(test_cases)
        /\ \A k \in 1..Len(self_results) :
             \/ self_results[k].error = None
             \/ self_results[k].actual_sentiment = "error"

\* C12: when main exits after a batch that did not crash, the exit code is
\* 0 and the results were saved, for every test-case list.
C12_ExitCodeZero ==
    pc = "exited" => (exit_code = 0 /\ saved # NoneResult)

\* C13: a request for test case i is in flight only when the results of
\* test cases 1..i-1, and no others, have been appended; the result list
\* changes only by an append at its end; and the k-th result carries the
\* k-th test case's topic.
C13_OneAtATimeInOrder ==
    /\ [](pc = "dispatched" => Len(results) = i - 1)
    /\ [](\A k \in 1..Len(results) : results[k].topic = test_cases[k].topic)
    /\ [](pc = "done" => self_results = results)
    /\ [][\/ results' = results
          \/ /\ Len(results') = Len(results) + 1
             /\ SubSeq(results', 1, Len(results)) = results]_vars

C13_Witness ==
    /\ pc = "dispatched"
    /\ i = 2
    /\ Len(results) = 1
    /\ results[1].topic = "inflation 2024"
    /\ test_cases[2].topic = "iPhone 16"

\* C14: for a non-empty result list the report has accuracy = pass_rate =
\* (number of correct results) / total, average_score = (sum of
\* accuracy_score) / total, error results counting in total with score 0,
\* and average_confidence = (sum of the confidences of the results without
\* error) / max(number of results without error, 1), which is 0 / 1 for
\* an all-error list.
C14_ReportMetrics ==
    (Reported /\ self_results # <<>>) =>
        LET n == Len(self_results)
            ok == {k \in 1..n : self_results[k].error = None}
            good == {k \in 1..n : self_results[k].correct}
            scores == [k \in 1..n |-> self_results[k].accuracy_score]
            confs == [k \in 1..n |-> self_results[k].confidence]
            sm == report.summary
        IN  /\ sm.total_tests = n
            /\ sm.accuracy = <<Cardinality(good), n>>
            /\ sm.pass_rate = <<Cardinality(good), n>>
            /\ sm.average_score = <<SumOver(1..n, scores), n>>
            /\ sm.average_score = <<SumOver(ok, scores), n>>
            /\ sm.average_confidence =
                 <<SumOver(ok, confs), IF ok = {} THEN 1 ELSE Cardinality(ok)>>
            /\ ok = {} => sm.average_confidence = <<0, 1>>

C14_Witness ==
    /\ pc = "reported"
    /\ Len(self_results) = 2
    /\ self_results[1].error # None
    /\ self_results[2].error = None
    /\ report.summary.average_confidence = <<90, 1>>
    /\ report.summary.accuracy = <<1, 2>>

\* C15: generate_report on an empty result list returns the no-data
\* report (an error marker, an empty summary, an empty results list), and
\* generate_report never raises.
C15_EmptyReport ==
    /\ pc # "report raised"
    /\ (Reported /\ self_results = <<>>) =>
          /\ DOMAIN report = {"error", "summary", "results"}
          /\ report.error = "No results available"
          /\ DOMAIN report.summary = {}
          /\ Len(report.results) = 0

C15_Witness ==
    /\ pc = "reported"
    /\ self_results = <<>>
    /\ report.error = "No results available"

\* C16 as stated: every by_category entry and every by_difficulty entry
\* has accuracy, average_score, average_time and the group's count.
C16_Original ==
    (Reported /\ self_results # <<>>) =>
        /\ \A c \in DOMAIN report.by_category :
             DOMAIN report.by_category[c] =
                {"accuracy", "average_score", "average_time", "total_tests"}
        /\ \A d \in DOMAIN report.by_difficulty :
             DOMAIN report.by_difficulty[d] =
                {"accuracy", "average_score", "average_time", "total_tests"}

\* C16 amended: every by_category entry has accuracy, average_score,
\* average_time and total_tests of its group; every by_difficulty entry
\* has accuracy, average_score and total_tests of its group and no
\* average_time; each figure is the group's sum or count over the group's
\* size.
C16_GroupMetrics ==
    (Reported /\ self_results # <<>>) =>
        LET n == Len(self_results)
            scores == [k \in 1..n |-> self_results[k].accuracy_score]
            times == [k \in 1..n |-> self_results[k].time_taken]
        IN  /\ DOMAIN report.by_category = {self_results[k].category : k \in 1..n}
            /\ DOMAIN report.by_difficulty = {self_results[k].difficulty : k \in 1..n}
            /\ \A c \in DOMAIN report.by_category :
                 LET g == {k \in 1..n : self_results[k].category = c}
                     st == report.by_category[c]
                 IN  /\ DOMAIN st = {"accuracy", "average_score", "average_time", "total_tests"}
                     /\ st.total_tests = Cardinality(g)
                     /\ st.accuracy = <<Cardinality({k \in g : self_results[k].correct}), Cardinality(g)>>
                     /\ st.average_score = <<SumOver(g, scores), Cardinality(g)>>
                     /\ st.average_time = <<SumOver(g, times), Cardinality(g)>>
            /\ \A d \in DOMAIN report.by_difficulty :
                 LET g == {k \in 1..n : self_results[k].difficulty = d}
                     st == report.by_difficulty[d]
                 IN  /\ DOMAIN st = {"accuracy", "average_score", "total_tests"}
                     /\ st.total_tests = Cardinality(g)
                     /\ st.accuracy = <<Cardinality({k \in g : self_results[k].correct}), Cardinality(g)>>
                     /\ st.average_score = <<SumOver(g, scores), Cardinality(g)>>

C16_Witness ==
    /\ pc = "reported"
    /\ Len(self_results) = 2
    /\ DOMAIN report.by_category = {"technology", "economy"}
    /\ DOMAIN report.by_difficulty = {"easy"}
    /\ report.by_difficulty["easy"].total_tests = 2

(***************************************************************************)
(* Properties of the aggregator (SpecAgg).                                 *)
(***************************************************************************)
\* Number of judgments of the argument list voting for a sentiment.
Votes(sent) == Cardinality({k \in 1..Len(judgments) : judgments[k].sentiment = sent})

\* C17: aggregate_advanced on an empty judgment list returns
\* overall_sentiment = neutral, confidence = 0.0, is_controversial = false
\* and an empty distribution.
C17_EmptyAggregate ==
    (call = "aggregate_advanced" /\ judgments = <<>>) =>
        /\ ret.overall_sentiment = "neutral"
        /\ ret.confidence[1] = 0
        /\ ret.is_controversial = FALSE
        /\ DOMAIN ret.distribution = {}

C17_Witness ==
    /\ call = "aggregate_advanced"
    /\ judgments = <<>>
    /\ ret.overall_sentiment = "neutral"
    /\ DOMAIN ret.distribution = {}

\* C18: for every non-empty judgment list, when detect_controversy is true
\* and the consensus verdict is positive or negative, aggregate_advanced
\* reports mixed with the consensus confidence; a controversial outcome is
\* always mixed or neutral; [positive@0.9, positive@0.8, negative@0.7]
\* yields mixed.
C18_ControversyPrecedence ==
    (call = "aggregate_advanced" /\ judgments # <<>>) =>
        LET c == consensus_based(judgments, DefaultThreshold) IN
        /\ (detect_controversy(judgments) /\ c.sentiment \in {"positive", "negative"}) =>
               (ret.overall_sentiment = "mixed" /\ ret.confidence = c.confidence)
        /\ ret.is_controversial => ret.overall_sentiment \in {"mixed", "neutral"}
        /\ ret.is_controversial = detect_controversy(judgments)
        /\ (Field(judgments, "sentiment") = <<"positive", "positive", "negative">>
            /\ Field(judgments, "confidence") = <<90, 80, 70>>) =>
               ret.overall_sentiment = "mixed"

C18_Witness ==
    /\ call = "aggregate_advanced"
    /\ Field(judgments, "sentiment") = <<"positive", "positive", "negative">>
    /\ Field(judgments, "confidence") = <<90, 80, 70>>
    /\ consensus_based(judgments, DefaultThreshold).sentiment = "positive"
    /\ ret.is_controversial
    /\ ret.overall_sentiment = "mixed"
    /\ ret.confidence = <<170, 240>>

\* C19: detect_controversy returns true exactly when the list has at least
\* 3 judgments and the positive count and the negative count are each at
\* least a quarter of the list size; it is false for lists of size 0, 1, 2.
C19_Controversy ==
    call = "detect_controversy" =>
        /\ ret = TRUE <=> /\ Len(judgments) >= 3
                          /\ 4 * Votes("positive") >= Len(judgments)
                          /\ 4 * Votes("negative") >= Len(judgments)
        /\ Len(judgments) < 3 => ret = FALSE

\* Exactly a quarter on each side, of four judgments.
C19_Witness ==
    /\ call = "detect_controversy"
    /\ Len(judgments) = 4
    /\ Votes("positive") = 1
    /\ Votes("negative") = 1
    /\ ret = TRUE

\* C20 as stated: for every list and threshold consensus_based returns the
\* weighted_by_confidence verdict when the weighted confidence is at least
\* the threshold and mixed when it is below, the confidence unchanged.
C20_Original ==
    call = "consensus_based" =>
        \A t \in Thresholds :
            LET w == weighted_by_confidence(judgments) IN
            /\ ret[t].confidence = w.confidence
            /\ ret[t].sentiment = IF 100 * w.confidence[1] >= t * w.confidence[2]
                                  THEN w.sentiment
                                  ELSE "mixed"

\* C20: for every non-empty list and every threshold consensus_based
\* returns the weighted_by_confidence verdict when the weighted confidence
\* is at least the threshold and mixed when it is below, the confidence
\* unchanged; for the empty list it returns (neutral, 0.0) whatever the
\* threshold.
C20_Consensus ==
    call = "consensus_based" =>
        \A t \in Thresholds :
            LET w == weighted_by_confidence(judgments) IN
            IF judgments = <<>>
            THEN ret[t].sentiment = "neutral" /\ ret[t].confidence[1] = 0
            ELSE /\ ret[t].confidence = w.confidence
                 /\ ret[t].sentiment = IF 100 * w.confidence[1] >= t * w.confidence[2]
                                       THEN w.sentiment
                                       ELSE "mixed"

\* Two of three weighted votes: kept at threshold 0.5, overridden at 0.7;
\* unanimous: kept at threshold 1.0.
C20_Witness ==
    /\ call = "consensus_based"
    /\ Len(judgments) = 3
    /\ ret[50].sentiment = "positive"
    /\ ret[70].sentiment = "mixed"
    /\ ret[70].confidence = ret[50].confidence
    /\ ret[50].confidence = <<180, 270>>

\* Summed confidence of the judgments of the argument list voting for a
\* sentiment, and of all of them.
Weight(sent) ==
    SumOver({k \in 1..Len(judgments) : judgments[k].sentiment = sent},
            Field(judgments, "confidence"))

TotalWeight == SumOver(1..Len(judgments), Field(judgments, "confidence"))

\* The sentiments that occur in the argument list.
Observed == {judgments[k].sentiment : k \in 1..Len(judgments)}

\* C21: weighted_by_confidence returns an observed verdict whose summed
\* confidence is maximal among the observed verdicts, with confidence that
\* sum over the total of all confidences; on an empty list or when all
\* confidences are zero it returns (neutral, 0.0).
C21_WeightedWinner ==
    call = "weighted_by_confidence" =>
        IF judgments = <<>> \/ TotalWeight = 0
        THEN ret.sentiment = "neutral" /\ ret.confidence = <<0, 1>>
        ELSE /\ ret.sentiment \in Observed
             /\ \A sent \in Observed : Weight(sent) <= Weight(ret.sentiment)
             /\ ret.confidence = <<Weight(ret.sentiment), TotalWeight>>

\* The minority verdict wins on weight.
C21_Witness ==
    /\ call = "weighted_by_confidence"
    /\ Len(judgments) = 3
    /\ Votes("positive") = 2
    /\ Weight("positive") = 0
    /\ ret.sentiment = "negative"
    /\ ret.confidence = <<90, 90>>

\* C22: simple_majority returns a verdict with the maximal vote count among
\* the judgments, with confidence that count over N; on an empty list it
\* returns (neutral, 0.0).
C22_MajorityWinner ==
    call = "simple_majority" =>
        IF judgments = <<>>
        THEN ret.sentiment = "neutral" /\ ret.confidence = <<0, 1>>
        ELSE /\ ret.sentiment \in Observed
             /\ \A sent \in Observed : Votes(sent) <= Votes(ret.sentiment)
             /\ ret.confidence = <<Votes(ret.sentiment), Len(judgments)>>

\* The winner is not the verdict seen first.
C22_Witness ==
    /\ call = "simple_majority"
    /\ Len(judgments) = 3
    /\ judgments[1].sentiment = "negative"
    /\ ret.sentiment = "positive"
    /\ ret.confidence = <<2, 3>>

\* C23: for every non-empty judgment list the distribution returned by
\* get_sentiment_distribution, and the one in the outcome of
\* aggregate_advanced, has one entry per observed verdict, equal to
\* count / N, and the entries sum to 1 (the counts sum to N); for an empty
\* list the distribution is empty.
C23_Distribution ==
    call \in {"get_sentiment_distribution", "aggregate_advanced"} =>
        LET d == IF call = "aggregate_advanced" THEN ret.distribution ELSE ret IN
        IF judgments = <<>> THEN DOMAIN d = {}
        ELSE /\ DOMAIN d = Observed
             /\ \A sent \in Observed : d[sent] = <<Votes(sent), Len(judgments)>>
             /\ SumOver(Observed, [sent \in Observed |-> d[sent][1]]) = Len(judgments)

\* Three verdicts among five judgments, in the aggregate outcome.
C23_Witness ==
    /\ call = "aggregate_advanced"
    /\ Len(judgments) = 5
    /\ DOMAIN ret.distribution = {"positive", "mixed", "neutral"}
    /\ ret.distribution["positive"] = <<1, 5>>
    /\ ret.distribution["mixed"] = <<2, 5>>
    /\ ret.distribution["neutral"] = <<2, 5>>

C27_FallbackAgreesWithRubric ==
    ("_calculate_score" \in called /\ expected \in Verdict /\ predicted \in Verdict) =>
        score = score_against(predicted, expected)

(***************************************************************************)
(* The results of the batch (Spec).                                        *)
(***************************************************************************)
\* C28: in every result without error for a shipped test case (the shipped
\* topics are the keys of the store), correct is true exactly when
\* accuracy_score is 1.0.
C28_CorrectIffFullScore ==
    \A k \in 1..Len(results) :
        (results[k].error = None /\ results[k].topic \in DOMAIN GROUND_TRUTH) =>
            (results[k].correct <=> results[k].accuracy_score = 10)

(***************************************************************************)
(* The sentinel score (SpecScore).                                         *)
(***************************************************************************)
\* C29: calculate_accuracy returns 0.5 exactly for the topics without a
\* ground-truth entry, so the test `accuracy_score == 0.5` of
\* _assess_single_task invokes the fallback scorer if and only if the topic
\* has no entry.
C29_SentinelOnlyForUnknown ==
    "calculate_accuracy" \in called =>
        /\ accuracy = 5 <=> topic \notin DOMAIN GROUND_TRUTH
        /\ uses_fallback(predicted, topic) <=> topic \notin DOMAIN GROUND_TRUTH

\* A polar answer to a topic verified mixed: scored 0.4, no fallback.
C29_Witness ==
    /\ "calculate_accuracy" \in called
    /\ topic = "ChatGPT"
    /\ predicted = "positive"
    /\ accuracy = 4
    /\ ~uses_fallback(predicted, topic)

(***************************************************************************)
(* The consistency of the report (Spec).                                   *)
(***************************************************************************)
\* C30: for every non-empty result list the report of generate_report has
\* successful_tests + failed_tests = total_tests, correct <=
\* successful_tests, the total_tests of the by_category groups and of the
\* by_difficulty groups each summing to total_tests, and total_tests
\* result entries in the order of the stored results; generate_report
\* leaves the stored results unchanged.
C30_ReportConsistent ==
    /\ []((Reported /\ self_results # <<>>) =>
            LET sm == report.summary
                cats == report.by_category
                diffs == report.by_difficulty
            IN  /\ sm.total_tests = Len(self_results)
                /\ sm.successful_tests + sm.failed_tests = sm.total_tests
                /\ sm.correct <= sm.successful_tests
                /\ SumOver(DOMAIN cats, [c \in DOMAIN cats |-> cats[c].total_tests])
                     = sm.total_tests
                /\ SumOver(DOMAIN diffs, [d \in DOMAIN diffs |-> diffs[d].total_tests])
                     = sm.total_tests
                /\ Len(report.results) = sm.total_tests
                /\ \A k \in 1..Len(report.results) :
                     /\ report.results[k].topic = self_results[k].topic
                     /\ report.results[k].actual = self_results[k].actual_sentiment
                     /\ report.results[k].score = self_results[k].accuracy_score
                     /\ report.results[k].error = self_results[k].error)
    /\ [][pc = "done" => self_results' = self_results]_vars

\* Two results in two categories and two difficulties, the first one an
\* error result.
C30_Witness ==
    /\ pc = "reported"
    /\ Len(self_results) = 2
    /\ self_results[1].topic = "quantum toasters"
    /\ self_results[1].error # None
    /\ self_results[2].topic = "iPhone 16"
    /\ self_results[2].correct
    /\ report.summary.failed_tests = 1
    /\ report.summary.correct = 1
    /\ DOMAIN report.by_category = {"unknown", "technology"}
    /\ DOMAIN report.by_difficulty = {"medium", "easy"}
    /\ report.results[1].topic = "quantum toasters"

====
